---- MODULE Spec2Model ----
(***************************************************************************)
(* Money Manager API (src/main.py): the three transaction handlers         *)
(* create_transaction, list_transactions and monthly_summary over the      *)
(* "transaction" collection of the document store.                         *)
(*                                                                         *)
(* Amounts are Python floats.  A finite float is written in thousandths    *)
(* (m = 500005 is 500.005); NaN is kept as a value of its own, because     *)
(* every comparison with it is false.  Optional values are <<>> (None) or  *)
(* <<v>>.  A datetime is its calendar fields plus whether it carries a     *)
(* tzinfo.                                                                 *)
(***************************************************************************)
EXTENDS Integers, Sequences, FiniteSets, TLC

VARIABLES
    store,   \* the "transaction" collection, in insertion order
    now,     \* the wall clock, what datetime.now(timezone.utc) returns
    resp     \* the last request handled and what its handler returned

vars == <<store, now, resp>>

\* The most documents the collection holds in the model.
MaxStore == 2

----------------------------------------------------------------------------
\* Optional[T]

None == <<>>

Some(v) == <<v>>

\* Python truthiness of an Optional[int]: None and 0 are falsy.
Truthy(opt) == opt # None /\ opt[1] # 0

\* `opt or dflt` on an Optional[int].
OrElse(opt, dflt) == IF Truthy(opt) THEN opt[1] ELSE dflt

----------------------------------------------------------------------------
\* float

F(m) == [nan |-> FALSE, m |-> m]

NaN == [nan |-> TRUE, m |-> 0]

FAdd(a, b) == IF a.nan \/ b.nan THEN NaN ELSE F(a.m + b.m)

FSub(a, b) == IF a.nan \/ b.nan THEN NaN ELSE F(a.m - b.m)

\* a <= 0 on floats: False when a is NaN.
FLe0(a) == ~a.nan /\ a.m <= 0

Abs(x) == IF x < 0 THEN -x ELSE x

Sign(x) == IF x < 0 THEN -1 ELSE 1

\* round(x, 2) rounds the double x, not the decimal it was written as.  A
\* value whose thousandths digit is not 5 rounds as its decimal does.  A
\* value written with a final 5 is no double: the double the accumulation
\* produces lies just below the tie (500.005 is 500.00499999999999545...,
\* so round gives 500.0) for every such value the amounts of the model can
\* add up to, except 199.995, whose double lies above it.
TieAwayFromZero == {199995}

\* Round2 rounding the decimal half up instead of the double.
Round2HalfUp(x) ==
    IF x.nan THEN NaN
    ELSE LET a == Abs(x.m)
         IN  F(Sign(x.m) * 10 * ((a \div 10) + (IF a % 10 >= 5 THEN 1 ELSE 0)))

Round2(x) ==
    IF x.nan THEN NaN
    ELSE LET a == Abs(x.m)
             q == a \div 10
             r == a % 10
             up == r > 5 \/ (r = 5 /\ a \in TieAwayFromZero)
         IN  F(Sign(x.m) * 10 * (q + (IF up THEN 1 ELSE 0)))

----------------------------------------------------------------------------
\* datetime

DT(y, mo, d, h, aware) ==
    [year |-> y, month |-> mo, day |-> d, hour |-> h, aware |-> aware]

\* The instant of a datetime, in hours; the store orders dates by it.
Key(d) == (((d.year * 12 + (d.month - 1)) * 31 + (d.day - 1)) * 24) + d.hour

Pad2(n) == IF n < 10 THEN "0" \o ToString(n) ELSE ToString(n)

\* datetime.isoformat(): the offset is written only for an aware datetime.
IsoFormat(d) ==
    ToString(d.year) \o "-" \o Pad2(d.month) \o "-" \o Pad2(d.day) \o "T"
        \o Pad2(d.hour) \o ":00:00" \o (IF d.aware THEN "+00:00" ELSE "")

----------------------------------------------------------------------------
\* The store adapter (database.create_document, database.get_documents).

\* create_document(kind, data) -> id: the document is added to the
\* collection under an identifier no other document has.
NewId(s) == Len(s) + 1

CreateDocument(s, data) ==
    Append(s, [_id |-> NewId(s), amount |-> data.amount, type |-> data.type,
               category |-> data.category, note |-> data.note,
               date |-> data.date])

\* A filter is None (the empty dict) or Some([gte, lt]) on the date field.
Matches(d, filter) ==
    \/ filter = None
    \/ /\ filter # None
       /\ "date" \in DOMAIN d
       /\ Key(filter[1].gte) <= Key(d.date)
       /\ Key(d.date) < Key(filter[1].lt)

\* get_documents(kind, filter) -> the matching documents, in store order.
GetDocuments(s, filter) ==
    LET Test(d) == Matches(d, filter) IN SelectSeq(s, Test)

----------------------------------------------------------------------------
\* POST /api/transactions

\* AmountInvalid testing amount < 0.
AmountInvalidStrict(payload) == ~payload.amount.nan /\ payload.amount.m < 0

AmountInvalid(payload) == FLe0(payload.amount)

\* TypeInvalid comparing the type without regard to case.
TypeInvalidAnyCase(payload) ==
    payload.type \notin {"income", "expense", "Income"}

TypeInvalid(payload) == payload.type \notin {"income", "expense"}

BuildData(payload) ==
    [amount |-> payload.amount, type |-> payload.type,
     category |-> payload.category, note |-> payload.note,
     date |-> IF payload.date # None THEN payload.date[1] ELSE now]

CreateTransaction(payload) ==
    IF AmountInvalid(payload)
    THEN /\ resp' = [op |-> "create", req |-> payload, at |-> now,
                     status |-> 400, detail |-> "Amount must be positive",
                     body |-> None]
         /\ UNCHANGED <<store, now>>
    ELSE IF TypeInvalid(payload)
    THEN /\ resp' = [op |-> "create", req |-> payload, at |-> now,
                     status |-> 400,
                     detail |-> "Type must be 'income' or 'expense'",
                     body |-> None]
         /\ UNCHANGED <<store, now>>
    ELSE /\ Len(store) < MaxStore
         /\ LET data == BuildData(payload)
                doc_id == ToString(NewId(store))
            IN  /\ store' = CreateDocument(store, data)
                /\ resp' = [op |-> "create", req |-> payload, at |-> now,
                            status |-> 200, detail |-> "",
                            body |-> Some([id |-> doc_id,
                                           amount |-> data.amount,
                                           type |-> data.type,
                                           category |-> data.category,
                                           note |-> data.note,
                                           date |-> data.date])]
         /\ UNCHANGED now

----------------------------------------------------------------------------
\* Query(None, ge=1, le=12) and Query(None, ge=1970, le=3000): a parameter
\* out of its range is refused before the handler runs.
QueryOk(month, year) ==
    /\ month = None \/ (1 <= month[1] /\ month[1] <= 12)
    /\ year = None \/ (1970 <= year[1] /\ year[1] <= 3000)

Refused(op, month, year) ==
    [op |-> op, req |-> [month |-> month, year |-> year], at |-> now,
     status |-> 422, detail |-> "", body |-> None]

\* The date range of one month: its first instant, inclusive, to the first
\* instant of the next month, exclusive.
MonthRange(month, year) ==
    [gte |-> DT(year, month, 1, 0, TRUE),
     lt  |-> IF month = 12 THEN DT(year + 1, 1, 1, 0, TRUE)
             ELSE DT(year, month + 1, 1, 0, TRUE)]

----------------------------------------------------------------------------
\* GET /api/transactions

\* ListFilter ending December on January 1 of the same year.
ListFilterNoRollover(month, year) ==
    IF Truthy(month) /\ Truthy(year)
    THEN Some([gte |-> DT(year[1], month[1], 1, 0, TRUE),
               lt  |-> DT(year[1], (month[1] % 12) + 1, 1, 0, TRUE)])
    ELSE None

ListFilter(month, year) ==
    IF Truthy(month) /\ Truthy(year)
    THEN Some(MonthRange(month[1], year[1]))
    ELSE None

\* d["id"] = str(d.pop("_id", "")); a datetime date becomes its isoformat.
Shape(d) ==
    [k \in (DOMAIN d \ {"_id"}) \cup {"id"} |->
        IF k = "id" THEN (IF "_id" \in DOMAIN d THEN ToString(d._id) ELSE "")
        ELSE IF k = "date" THEN IsoFormat(d.date)
        ELSE d[k]]

ListResult(docs) == [i \in 1..Len(docs) |-> Shape(docs[i])]

\* ListTransactions popping "_id" from the stored documents themselves.
ListTransactionsInPlace(month, year) ==
    /\ resp' = IF ~QueryOk(month, year) THEN Refused("list", month, year)
               ELSE [op |-> "list", req |-> [month |-> month, year |-> year],
                     at |-> now, status |-> 200, detail |-> "",
                     body |-> Some([items |->
                        ListResult(GetDocuments(store,
                                                ListFilter(month, year)))])]
    /\ store' = IF ~QueryOk(month, year) THEN store
                ELSE [i \in 1..Len(store) |->
                        IF Matches(store[i], ListFilter(month, year))
                        THEN [k \in DOMAIN store[i] \ {"_id"} |-> store[i][k]]
                        ELSE store[i]]
    /\ UNCHANGED now

ListTransactions(month, year) ==
    /\ resp' = IF ~QueryOk(month, year) THEN Refused("list", month, year)
               ELSE [op |-> "list", req |-> [month |-> month, year |-> year],
                     at |-> now, status |-> 200, detail |-> "",
                     body |-> Some([items |->
                        ListResult(GetDocuments(store,
                                                ListFilter(month, year)))])]
    /\ UNCHANGED <<store, now>>

----------------------------------------------------------------------------
\* GET /api/summary/month

\* month = month or now.month; year = year or now.year
\* SummaryPeriod defaulting the year only: an absent month is January.
SummaryPeriodJanuary(month, year) ==
    [month |-> OrElse(month, 1), year |-> OrElse(year, now.year)]

SummaryPeriod(month, year) ==
    [month |-> OrElse(month, now.month), year |-> OrElse(year, now.year)]

SummaryFilter(month, year) == Some(MonthRange(month, year))

\* Bucket with a plain else: whatever is not income is an expense.
BucketElseExpense(d) ==
    IF "type" \in DOMAIN d /\ d.type = "income" THEN "income" ELSE "expense"

\* Which total a document is added to.
Bucket(d) ==
    IF "type" \in DOMAIN d /\ d.type = "income" THEN "income"
    ELSE IF "type" \in DOMAIN d /\ d.type = "expense" THEN "expense"
    ELSE "ignored"

\* The loop over docs: amt = float(d.get("amount", 0)).
RECURSIVE Accumulate(_, _, _)
Accumulate(docs, total_income, total_expense) ==
    IF docs = <<>>
    THEN [total_income |-> total_income, total_expense |-> total_expense]
    ELSE LET d == Head(docs)
             amt == IF "amount" \in DOMAIN d THEN d.amount ELSE F(0)
         IN  IF Bucket(d) = "income"
             THEN Accumulate(Tail(docs), FAdd(total_income, amt),
                             total_expense)
             ELSE IF Bucket(d) = "expense"
             THEN Accumulate(Tail(docs), total_income,
                             FAdd(total_expense, amt))
             ELSE Accumulate(Tail(docs), total_income, total_expense)

SummaryBody(month, year) ==
    LET p == SummaryPeriod(month, year)
        docs == GetDocuments(store, SummaryFilter(p.month, p.year))
        t == Accumulate(docs, F(0), F(0))
        balance == FSub(t.total_income, t.total_expense)
    IN  [month |-> p.month, year |-> p.year,
         total_income |-> Round2(t.total_income),
         total_expense |-> Round2(t.total_expense),
         balance |-> Round2(balance)]

MonthlySummary(month, year) ==
    /\ resp' = IF ~QueryOk(month, year) THEN Refused("summary", month, year)
               ELSE [op |-> "summary",
                     req |-> [month |-> month, year |-> year], at |-> now,
                     status |-> 200, detail |-> "",
                     body |-> Some(SummaryBody(month, year))]
    /\ UNCHANGED <<store, now>>

----------------------------------------------------------------------------
\* The inputs of the model.

\* Clock readings: the last hour of December 2023 and the first of
\* February 2024.
Nows == {DT(2023, 12, 31, 23, TRUE), DT(2024, 2, 1, 0, TRUE)}

\* Dates a caller supplies: none, the first instant of January 2024 with an
\* offset, and a naive datetime in January 2024.
Dates == {None, Some(DT(2024, 1, 1, 0, TRUE)), Some(DT(2024, 1, 15, 10, FALSE))}

PayloadsOf(amounts, types, dates) ==
    [amount : amounts, type : types, category : {"food"}, note : {None},
     date : dates]

\* The clock moves forward between requests.
Tick == /\ \E t \in Nows : Key(t) > Key(now) /\ now' = t
        /\ UNCHANGED <<store, resp>>

NoResponse ==
    [op |-> "none", req |-> None, at |-> now, status |-> 0, detail |-> "",
     body |-> None]

\* Requests with valid and invalid payloads against an empty store.
Payloads ==
    PayloadsOf({F(-5000), F(0), F(100000), NaN},
               {"income", "expense", "Income"},
               {None, Some(DT(2024, 1, 1, 0, TRUE))})

Init ==
    /\ store = <<>>
    /\ now \in Nows
    /\ resp = NoResponse

Next ==
    \/ \E payload \in Payloads : CreateTransaction(payload)
    \/ \E month \in {None, Some(12)}, year \in {None, Some(2023)} :
            ListTransactions(month, year)
    \/ \E month \in {None, Some(12)}, year \in {None, Some(2023)} :
            MonthlySummary(month, year)
    \/ Tick

Spec == Init /\ [][Next]_vars

\* Valid payloads with no date, an aware date and a naive date, and every
\* combination of absent, out-of-range and in-range month and year on the
\* two queries.
PayloadsQuery == PayloadsOf({F(100000)}, {"income", "expense"}, Dates)

Months == {None, Some(0), Some(1), Some(12)}

Years == {None, Some(1969), Some(2023), Some(2024)}

NextQuery ==
    \/ \E payload \in PayloadsQuery : CreateTransaction(payload)
    \/ \E month \in Months, year \in Years : ListTransactions(month, year)
    \/ \E month \in Months, year \in Years : MonthlySummary(month, year)
    \/ Tick

SpecQuery == Init /\ [][NextQuery]_vars

\* Amounts with a third decimal, all dated in January 2024, and the
\* summary of that month.
PayloadsRounding ==
    PayloadsOf({F(6), F(200001), F(500005)}, {"income", "expense"},
               {Some(DT(2024, 1, 1, 0, TRUE))})

NextRounding ==
    \/ \E payload \in PayloadsRounding : CreateTransaction(payload)
    \/ \E month \in {None, Some(1)}, year \in {None, Some(2024)} :
            ListTransactions(month, year)
    \/ \E month \in {None, Some(1)}, year \in {None, Some(2024)} :
            MonthlySummary(month, year)
    \/ Tick

SpecRounding == Init /\ [][NextRounding]_vars

\* A collection that already holds a document this program did not write:
\* one of another type, one with no type, one with no amount.
LegacyDocs ==
    { [_id |-> 1, amount |-> F(100000), type |-> "transfer",
       category |-> "food", note |-> None,
       date |-> DT(2024, 1, 1, 0, TRUE)],
      [_id |-> 1, amount |-> F(100000), category |-> "food", note |-> None,
       date |-> DT(2024, 1, 1, 0, TRUE)],
      [_id |-> 1, type |-> "income", category |-> "food", note |-> None,
       date |-> DT(2024, 1, 1, 0, TRUE)] }

PayloadsLegacy ==
    PayloadsOf({F(100000), F(6)}, {"income", "expense"},
               {None, Some(DT(2024, 1, 1, 0, TRUE))})

InitLegacy ==
    /\ store \in {<<d>> : d \in LegacyDocs}
    /\ now \in Nows
    /\ resp = NoResponse

NextLegacy ==
    \/ \E payload \in PayloadsLegacy : CreateTransaction(payload)
    \/ \E month \in {None, Some(1)}, year \in {None, Some(2024)} :
            ListTransactions(month, year)
    \/ \E month \in {None, Some(1)}, year \in {None, Some(2024)} :
            MonthlySummary(month, year)
    \/ Tick

SpecLegacy == InitLegacy /\ [][NextLegacy]_vars

----------------------------------------------------------------------------
\* What the properties below speak of.

Body == resp.body[1]

Created == resp.op = "create" /\ resp.status = 200

Listed == resp.op = "list" /\ resp.status = 200

Summarized == resp.op = "summary" /\ resp.status = 200

\* a > 0 and a >= 0 on floats: False when a is NaN.
FGt0(a) == ~a.nan /\ a.m > 0

FGe0(a) == ~a.nan /\ a.m >= 0

\* first instant of (month, year) UTC <= d < first instant of the next month
FirstInstant(month, year) == Key(DT(year, month, 1, 0, TRUE))

InHalfOpenMonth(d, month, year) ==
    /\ FirstInstant(month, year) <= Key(d.date)
    /\ Key(d.date) < (IF month = 12 THEN FirstInstant(1, year + 1)
                      ELSE FirstInstant(month + 1, year))

\* The sum of the amounts of the first n documents of s that are dated in
\* (month, year) and whose type is ty.
RECURSIVE TotalOf(_, _, _, _, _)
TotalOf(s, n, ty, month, year) ==
    IF n = 0 THEN F(0)
    ELSE LET d == s[n]
             rest == TotalOf(s, n - 1, ty, month, year)
         IN  IF /\ InHalfOpenMonth(d, month, year)
                /\ "type" \in DOMAIN d
                /\ d.type = ty
             THEN FAdd(rest, IF "amount" \in DOMAIN d THEN d.amount ELSE F(0))
             ELSE rest

----------------------------------------------------------------------------
\* C1: a create whose amount is <= 0 fails with 400 'Amount must be
\* positive', whatever the rest of the payload, and the store after the call
\* is the store before it.
C1_InvalidAmountRejected ==
    [][(resp'.op = "create" /\ FLe0(resp'.req.amount)) =>
            /\ resp'.status = 400
            /\ resp'.detail = "Amount must be positive"
            /\ store' = store]_vars

\* A non-empty store has just refused amounts 0 and below.
C1_Witness ==
    /\ Len(store) >= 1
    /\ resp.op = "create"
    /\ resp.req.amount = F(0)
    /\ resp.status = 400

\* C2 as stated: a create whose type is not exactly "income" or "expense"
\* fails with 400 'Type must be 'income' or 'expense'', whatever its amount,
\* and nothing is persisted.
C2_Original ==
    [][(resp'.op = "create" /\ resp'.req.type \notin {"income", "expense"}) =>
            /\ resp'.status = 400
            /\ resp'.detail = "Type must be 'income' or 'expense'"
            /\ store' = store]_vars

\* C2 as amended: such a create fails with 400 and persists nothing; the
\* error is the invalid-type one unless the amount is <= 0, which is tested
\* first and reported instead.
C2_InvalidTypeRejected ==
    [][(resp'.op = "create" /\ resp'.req.type \notin {"income", "expense"}) =>
            /\ resp'.status = 400
            /\ resp'.detail = IF FLe0(resp'.req.amount)
                              THEN "Amount must be positive"
                              ELSE "Type must be 'income' or 'expense'"
            /\ store' = store]_vars

\* A non-empty store has just refused type "Income" on a positive amount.
C2_Witness ==
    /\ Len(store) >= 1
    /\ resp.op = "create"
    /\ resp.req.type = "Income"
    /\ resp.req.amount = F(100000)
    /\ resp.detail = "Type must be 'income' or 'expense'"

\* C3: from an empty store, after any requests, every stored transaction
\* has amount > 0 and type "income" or "expense".
C3_StoredValid ==
    \A i \in 1..Len(store) :
        /\ FGt0(store[i].amount)
        /\ store[i].type \in {"income", "expense"}

\* C4: list returns all and only the stored transactions dated in the
\* half-open month when month and year are both given, and every stored
\* transaction when either is absent.
C4_ListSelectsHalfOpenMonth ==
    Listed =>
        LET month == resp.req.month
            year == resp.req.year
            Selected(d) ==
                (month # None /\ year # None)
                    => InHalfOpenMonth(d, month[1], year[1])
            expected == SelectSeq(store, Selected)
            items == Body.items
        IN  /\ Len(items) = Len(expected)
            /\ \A i \in 1..Len(expected) :
                    /\ items[i].id = ToString(expected[i]._id)
                    /\ items[i].amount = expected[i].amount
                    /\ items[i].type = expected[i].type
                    /\ items[i].category = expected[i].category
                    /\ items[i].note = expected[i].note

\* month=12, year=2023 has returned the one December document of a store
\* that also holds one dated 2024-01-01T00:00:00Z.
C4_Witness ==
    /\ Listed
    /\ resp.req = [month |-> Some(12), year |-> Some(2023)]
    /\ Len(store) = 2
    /\ Len(Body.items) = 1
    /\ \E i \in 1..2 : store[i].date = DT(2024, 1, 1, 0, TRUE)

\* C5: the values summary returns satisfy balance = total_income -
\* total_expense exactly, and neither total is negative.
C5_BalanceIsDifference ==
    Summarized =>
        /\ Body.balance = FSub(Body.total_income, Body.total_expense)
        /\ FGe0(Body.total_income)
        /\ FGe0(Body.total_expense)

\* One income of 500.005 and one expense of 200.001 in January 2024, and
\* the summary of month=1, year=2024 just returned.
C6_Scenario ==
    /\ Summarized
    /\ resp.req = [month |-> Some(1), year |-> Some(2024)]
    /\ Len(store) = 2
    /\ \E i, j \in 1..2 :
            /\ store[i].type = "income" /\ store[i].amount = F(500005)
            /\ store[j].type = "expense" /\ store[j].amount = F(200001)
            /\ InHalfOpenMonth(store[i], 1, 2024)
            /\ InHalfOpenMonth(store[j], 1, 2024)

\* C6 as stated: that summary is total_income=500.01, total_expense=200.0,
\* balance=300.01.
C6_Original ==
    C6_Scenario =>
        /\ Body.total_income = F(500010)
        /\ Body.total_expense = F(200000)
        /\ Body.balance = F(300010)

\* C6 as amended: that summary is total_income=500.0, total_expense=200.0,
\* balance=300.0: each total rounded only at output, the balance the
\* rounded value of the unrounded difference 300.004.
C6_ScenarioSummary ==
    C6_Scenario =>
        /\ Body.total_income = F(500000)
        /\ Body.total_expense = F(200000)
        /\ Body.balance = F(300000)

C6_Witness == C6_Scenario /\ Body.month = 1 /\ Body.year = 2024

\* C7: summary replaces each absent parameter by the current UTC month or
\* year, aggregates exactly the documents of that one month, and returns
\* the month and year it used.
C7_SummaryAlwaysBounded ==
    Summarized =>
        LET month == IF resp.req.month = None THEN resp.at.month
                     ELSE resp.req.month[1]
            year == IF resp.req.year = None THEN resp.at.year
                    ELSE resp.req.year[1]
            income == TotalOf(store, Len(store), "income", month, year)
            expense == TotalOf(store, Len(store), "expense", month, year)
        IN  /\ Body.month = month
            /\ Body.year = year
            /\ Body.total_income = Round2(income)
            /\ Body.total_expense = Round2(expense)
            /\ Body.balance = Round2(FSub(income, expense))

\* No parameters, documents only in other months: zeros for the current
\* month.
C7_Witness ==
    /\ Summarized
    /\ resp.req = [month |-> None, year |-> None]
    /\ Len(store) = 2
    /\ \A i \in 1..2 : ~InHalfOpenMonth(store[i], resp.at.month, resp.at.year)
    /\ Body = [month |-> resp.at.month, year |-> resp.at.year,
               total_income |-> F(0), total_expense |-> F(0),
               balance |-> F(0)]

\* C8: every transaction a successful create persists has a timezone-aware
\* date, and the date create returns is the supplied one when one is given.
C8_DatesAware ==
    /\ \A i \in 1..Len(store) : store[i].date.aware
    /\ Created =>
            /\ Body.date.aware
            /\ resp.req.date # None => Body.date = resp.req.date[1]

\* C9: stored transactions are never updated or deleted; list and summary
\* leave the store as it is; a successful create adds exactly one document,
\* under an id no stored document has.
C9_StoreAppendOnly ==
    [][/\ Len(store') >= Len(store)
       /\ \A i \in 1..Len(store) : store'[i] = store[i]
       /\ resp'.op \in {"list", "summary"} => store' = store
       /\ (resp'.op = "create" /\ resp'.status # 200) => store' = store
       /\ (resp'.op = "create" /\ resp'.status = 200 /\ now' = now) =>
            /\ Len(store') = Len(store) + 1
            /\ \A i \in 1..Len(store) :
                    store[i]._id # store'[Len(store')]._id
            /\ resp'.body[1].id = ToString(store'[Len(store')]._id)]_vars

\* Two identical creates have left two documents that differ in their id
\* alone.
C9_Witness ==
    /\ Len(store) = 2
    /\ store[1]._id # store[2]._id
    /\ [store[1] EXCEPT !._id = 0] = [store[2] EXCEPT !._id = 0]
    /\ Created

====
